---- MODULE Spec2Model ----
(***************************************************************************)
(* The generate-validate-repair loop of the DevOps AI toolkit.             *)
(*                                                                         *)
(* build_docker_image (src/core/build_docker_image.py) builds an image     *)
(* from the Dockerfile, runs, stops and removes a container, and on a      *)
(* BuildError or APIError asks fix_docker_build_issue                      *)
(* (src/generators/docker/generate_docker_file.py) for a repaired          *)
(* Dockerfile and calls itself again with the attempt counter.  The        *)
(* recursive call is the last statement of the handler, so a frame that    *)
(* has made it has no work left; the model keeps the innermost frame.      *)
(*                                                                         *)
(* The container tool, the file system and the text-generation gateway     *)
(* are external: each call either returns or raises, chosen freely.        *)
(***************************************************************************)
EXTENDS Integers, Sequences, FiniteSets, TLC

\* `if fix_count > 10` in both handlers of build_docker_image.
Ceiling == 10

\* The observer log keeps the last MaxLog diagnostics.
MaxLog == 3
\* The observer counters saturate at CounterCap (above anything the loop reaches).
CounterCap == 12
\* Container ids the runtime can hand out (above anything the loop reaches).
MaxContainers == 12

\* Error texts the container tool, the file system or the gateway can give.
Diagnostics == {"port 8080 already bound", "unknown instruction"}
\* Dockerfile bodies: what is on disk at first and what the gateway can answer.
Artifacts == {"FROM python:latest", "FROM debian:latest"}

None == "None"
Unbound == "<unbound>"
NoPrompt == <<>>
NoExc == [kind |-> None, msg |-> None]
NoContainer == 0

VARIABLES
    pc,                 \* position of the innermost frame of build_docker_image
    fix_count,          \* its parameter and local fix_count
    dockerfile_content, \* its local dockerfile_content
    e,                  \* the exception its handler caught
    container_object,   \* its local container_object (a container id)
    ret,                \* what the run returned to its caller
    fix_result,         \* what fix_docker_build_issue returned to the handler
    prompt,             \* the prompt that call of fix_docker_build_issue sent
    file,               \* the Dockerfile at dockerfile_path
    containers,         \* containers that exist in the container runtime
    status,             \* state of the process of container_object
    file0,              \* the Dockerfile when the run started
    attempts,           \* observer: attempts started
    builds,             \* observer: calls of client.images.build
    failures,           \* observer: BuildError/APIError handlers entered
    repairs,            \* observer: calls of fix_docker_build_issue
    ops,                \* observer: container-tool calls of this attempt
    log,                \* observer: the last diagnostics logged by the handlers
    rewritten,          \* observer: Dockerfile written since the last build
    t_pc,               \* text functions: which function has been applied
    text,               \* text functions: the response text given to it
    result,             \* text functions: what it returned or raised
    g_pc,               \* generation run: position in the entry function
    run,                \* which entry function runs
    user_input,         \* argument user_input / initial_requirement
    dockerfile_path,    \* argument dockerfile_path
    dockerfile_on_disk, \* whether the Dockerfile at dockerfile_path can be read
    project_dependency_object, \* argument of generate_docker_file
    dependency_on_disk, \* whether the dependency object can be read
    classification_result,     \* local: the supervisor chain's answer
    task_definition_response,  \* local: the task definition chain's answer
    generation_response, \* local: terraform_response / cloudformation_response
    generated,          \* local: terraform_code / cloudformation_template
    error,              \* the exception raised in the run, if any
    outcome,            \* what the entry function returned or raised
    calls,              \* calls issued to the text-generation gateway
    files,              \* the files the run writes
    agent_runs,         \* invocations of the repair step
    validated,          \* codes on which terraform plan reported no error
    review_response,    \* local of the CloudFormation fix step: the model's answer
    fixed_template,     \* local fixed_template of get_fixed_cloudformation_template
    tool_calls,         \* calls of the ExecuteTerraform tool by the repair agent
    commands,           \* the terraform commands of its last call, with their exits
    tool_result,        \* what that call returned or raised
    entry,              \* two runs: the entry function both runs execute
    r_pc,               \* two runs: position of each run
    r_input,            \* two runs: argument user_input of each run
    r_code,             \* two runs: local terraform_code / cloudformation_template
    r_seen,             \* two runs: what the ReadFiles tool gave the run's agent
    r_planned,          \* two runs: what terraform plan ran on for the run's agent
    r_output,           \* two runs: what each run returned
    disk,               \* two runs: the files under iac/
    page,               \* page: which page script the session shows
    p_pc,               \* page: position of the script run
    docker_file_path,   \* page: st.session_state.docker_file_path
    initialized,        \* page: the three keys of lines 15-20 are in the session
    in_progress,        \* page: st.session_state.<page>_in_progress
    progress,           \* page: st.session_state.<page>_progress
    session_status,     \* page: st.session_state.<page>_status
    text_area,          \* page: what st.text_area returned in this script run
    button              \* page: what st.button returns in this script run

locals == <<fix_count, dockerfile_content, e, container_object, ret, fix_result, prompt>>
world == <<file, containers, status, file0>>
observers == <<attempts, builds, failures, repairs, ops, log, rewritten>>
dockervars == <<pc, locals, world, observers>>
textvars == <<t_pc, text, result>>
inputs == <<run, user_input, dockerfile_path, dockerfile_on_disk,
            project_dependency_object, dependency_on_disk>>
reviewvars == <<review_response, fixed_template>>
toolvars == <<tool_calls, commands, tool_result>>
genvars == <<g_pc, inputs, classification_result, task_definition_response,
             generation_response, generated, error, outcome, calls, files, agent_runs,
             validated, reviewvars, toolvars>>
\* Everything a run of build_docker_image does not touch.
pairvars == <<entry, r_pc, r_input, r_code, r_seen, r_planned, r_output, disk>>
pagevars == <<page, p_pc, docker_file_path, initialized, in_progress, progress,
              session_status, text_area, button>>
beyondDocker == <<textvars, genvars, pairvars, pagevars>>
\* Everything the text functions do not touch.
beyondText == <<dockervars, genvars, pairvars, pagevars>>
\* Everything a generation run does not touch.
beyondGen == <<dockervars, textvars, pairvars, pagevars>>
\* Everything two interleaved runs do not touch.
beyondPair == <<dockervars, textvars, genvars, pagevars>>
\* Everything a page script does not touch besides the run it starts.
beyondPage == <<dockervars, textvars, pairvars>>
vars == <<dockervars, beyondDocker>>

Terminal == {"done", "aborted", "unexpected"}

----------------------------------------------------------------------------
(* Helpers *)

Inc(n) == IF n < CounterCap THEN n + 1 ELSE n

KeepLast(s, x, n) == IF Len(s) < n THEN Append(s, x) ELSE Append(Tail(s), x)

\* Variants of line 45: the counter is passed on unchanged; it is raised twice.
NextCountStuck(fc) == fc
NextCountTwice(fc) == fc + 2

\* line 45: fix_count+=1
NextCount(fc) == fc + 1

\* Variants of the test of lines 74 and 81: one attempt late; one attempt early.
ExhaustedLate(fc) == fc > Ceiling + 1
ExhaustedEarly(fc) == fc >= Ceiling

\* lines 74 and 81: if fix_count > 10
Exhausted(fc) == fc > Ceiling

\* str(e), as the f-strings and the prompt template format the exception:
\* the text of the error without its Python type.
Str(exc) == exc.msg

\* Variant of the prompt: the place of the Dockerfile content is left empty.
FormatPromptNoContent(docker_build_error, content) ==
    << "You are an expert in fixing issues in Dockerfile that raise during docker build. I am getting the following error",
       Str(docker_build_error),
       "when building docker image with the following Dockerfile content",
       "",
       "Can you please update the content with appropriate fix and provide me correct dockerfile without any explanation." >>

\* Variant of the prompt: the Dockerfile content fills both places.
FormatPromptNoError(docker_build_error, content) ==
    << "You are an expert in fixing issues in Dockerfile that raise during docker build. I am getting the following error",
       content,
       "when building docker image with the following Dockerfile content",
       content,
       "Can you please update the content with appropriate fix and provide me correct dockerfile without any explanation." >>

\* fix_dockerfile_build_issue_prompt filled in by
\* llm_chain.invoke({"docker_build_error": ..., "dockerfile_content": ...}).
FormatPrompt(docker_build_error, content) ==
    << "You are an expert in fixing issues in Dockerfile that raise during docker build. I am getting the following error",
       Str(docker_build_error),
       "when building docker image with the following Dockerfile content",
       content,
       "Can you please update the content with appropriate fix and provide me correct dockerfile without any explanation." >>

\* create_dockerfile: the file holds file_content when the write worked and
\* is left as it was when open() failed; the error is only returned.
CreateDockerfile(current, file_content, ok) ==
    IF ok THEN file_content ELSE current

\* Variant of the handlers of lines 72-87 without the catch-all clause: an
\* exception of another type leaves the function.
HandlerOfNoCatchAll(kind) ==
    CASE kind = "BuildError" -> "except_BuildError"
      [] kind = "APIError"   -> "except_APIError"
      [] OTHER               -> "raised"

HandlerOf(kind) ==
    CASE kind = "BuildError" -> "except_BuildError"
      [] kind = "APIError"   -> "except_APIError"
      [] OTHER               -> "except_Exception"

\* An exception of the given kind leaves the try block.
Raise(kind) ==
    \E d \in Diagnostics :
        /\ e' = [kind |-> kind, msg |-> d]
        /\ pc' = HandlerOf(kind)

FreeIds == (1..MaxContainers) \ containers
NewId == CHOOSE i \in FreeIds : \A j \in FreeIds : i <= j


----------------------------------------------------------------------------
(* Text functions: the extractors and the classifier tests.  A text is a   *)
(* sequence of tokens: the fence of three backticks, marker words, the     *)
(* newline (the whitespace the \s of the patterns stands for) and other words. *)

\* Most lines of a response text given to an extractor.
MaxLines == 5
\* Longest answer of the classifier.
MaxAnswer == 4

\* The code fence: three backticks.
Fence == "<fence>"
NL == "\n"
AnswerTokens == {"fargate", "Fargate", "ec2-autoscaling", "not", NL}

TextsOver(tokens, n) == UNION {[1..k -> tokens] : k \in 0..n}

\* The lines a response is made of, for the marker an extractor looks for:
\* blank, prose, the marker as a word, a bare fence, a fence with the marker,
\* with a longer word starting with the marker, with another word, and a
\* fence inside a line.
LineShapes(marker) ==
    {<<>>, <<"a">>, <<marker>>, <<Fence>>, <<Fence, marker>>,
     <<Fence, marker, "a">>, <<Fence, "a">>, <<"a", Fence>>}

RECURSIVE JoinLines(_)
JoinLines(ls) ==
    IF ls = <<>> THEN <<>>
    ELSE IF Len(ls) = 1 THEN ls[1]
    ELSE ls[1] \o <<NL>> \o JoinLines(Tail(ls))

ResponsesOver(marker, n) ==
    {JoinLines(ls) : ls \in TextsOver(LineShapes(marker), n)}

\* Most fenced blocks of a response made of blocks.
MaxBlocks == 3

\* Fenced blocks, each on lines of its own: tagged with the marker, with a
\* longer word starting with the marker or with another word, and with an
\* empty body, a one-line body or a body with blank lines around it.
BlockShapes(marker) ==
    {<<Fence>> \o tag \o <<NL>> \o body \o <<Fence>> :
        tag \in {<<marker>>, <<marker, "a">>, <<"a">>},
        body \in {<<>>, <<"a", NL>>, <<"b", NL>>, <<NL, "a", NL, NL>>}}

BlockResponses(marker, n) ==
    {JoinLines(bs) : bs \in TextsOver(BlockShapes(marker), n)}

IsSpace(t) == t = NL

\* str values, None and a raised ValueError.
StrVal(v) == [tag |-> "str", val |-> v]
NoneVal == [tag |-> "None", val |-> <<>>]
ValueError == [tag |-> "ValueError", val |-> <<>>]

\* \s* from position i: the position after the longest run of whitespace.
SkipSpace(t, i) ==
    CHOOSE j \in i..(Len(t) + 1) :
        /\ \A k \in i..(j - 1) : IsSpace(t[k])
        /\ (j = Len(t) + 1 \/ ~IsSpace(t[j]))

\* The first closing fence at or after position p, 0 when there is none.
FirstFence(t, p) ==
    IF \E f \in p..Len(t) : t[f] = Fence
       THEN CHOOSE f \in p..Len(t) :
                t[f] = Fence /\ \A g \in p..(f - 1) : t[g] # Fence
       ELSE 0

\* (.*?)\s*<fence> : the lazy group ends where the whitespace before the fence starts.
GroupEnd(t, p, f) ==
    CHOOSE q \in p..f :
        /\ \A k \in q..(f - 1) : IsSpace(t[k])
        /\ (q = p \/ ~IsSpace(t[q - 1]))

\* The pattern <fence><marker>\s*(.*?)\s*<fence> tried at position i.
MatchesAt(t, marker, i) ==
    /\ i + 1 <= Len(t)
    /\ t[i] = Fence
    /\ t[i + 1] = marker
    /\ FirstFence(t, SkipSpace(t, i + 2)) # 0

\* re.search from position from: the leftmost match, as
\* [found, start, group, next], next being the position after the match.
Search(t, marker, from) ==
    IF \E i \in from..Len(t) : MatchesAt(t, marker, i)
       THEN LET i == CHOOSE i \in from..Len(t) :
                        /\ MatchesAt(t, marker, i)
                        /\ \A j \in from..(i - 1) : ~MatchesAt(t, marker, j)
                p == SkipSpace(t, i + 2)
                f == FirstFence(t, p)
            IN  [found |-> TRUE, start |-> i,
                 group |-> SubSeq(t, p, GroupEnd(t, p, f) - 1), next |-> f + 1]
       ELSE [found |-> FALSE, start |-> 0, group |-> <<>>, next |-> Len(t) + 1]

\* re.findall: the groups of the successive non-overlapping matches.
RECURSIVE FindAll(_, _, _)
FindAll(t, marker, from) ==
    LET m == Search(t, marker, from)
    IN  IF m.found THEN <<m.group>> \o FindAll(t, marker, m.next) ELSE <<>>

\* str.strip()
Strip(v) ==
    IF \A k \in 1..Len(v) : IsSpace(v[k])
       THEN <<>>
       ELSE LET a == CHOOSE i \in 1..Len(v) :
                        ~IsSpace(v[i]) /\ \A k \in 1..(i - 1) : IsSpace(v[k])
                b == CHOOSE i \in 1..Len(v) :
                        ~IsSpace(v[i]) /\ \A k \in (i + 1)..Len(v) : IsSpace(v[k])
            IN  SubSeq(v, a, b)

\* "\n\n".join(blocks)
RECURSIVE Join(_)
Join(blocks) ==
    IF blocks = <<>> THEN <<>>
    ELSE IF Len(blocks) = 1 THEN blocks[1]
    ELSE blocks[1] \o <<NL, NL>> \o Join(Tail(blocks))

\* generate_ecs_cloudformation_code.py 114-120
ExtractYamlFromResponse(response) ==
    LET m == Search(response, "yaml", 1)
    IN  IF m.found THEN StrVal(Strip(m.group)) ELSE ValueError

\* generate_ecs_terraform_code.py 297-305
ExtractTerraformCodeFromOutput(output) ==
    LET terraform_code_blocks == FindAll(output, "hcl", 1)
    IN  IF terraform_code_blocks # <<>>
           THEN StrVal(Strip(Join(terraform_code_blocks)))
           ELSE NoneVal

\* str.lower() on a token
Lower(t) == IF t = "Fargate" THEN "fargate" ELSE t

\* tag in s.lower()
ContainsTag(v, tag) == \E i \in 1..Len(v) : Lower(v[i]) = tag

\* s.split(newline)[0]
FirstLine(v) ==
    IF \E i \in 1..Len(v) : v[i] = NL
       THEN SubSeq(v, 1, (CHOOSE i \in 1..Len(v) :
                              v[i] = NL /\ \A k \in 1..(i - 1) : v[k] # NL) - 1)
       ELSE v

\* generate_ecs_terraform_code.py 238-288: the branch generate_terraform_code takes.
ClassifyTerraform(classifier_answer) ==
    LET classification_result_line == FirstLine(classifier_answer)
    IN  IF ContainsTag(classification_result_line, "fargate") THEN "fargate"
        ELSE IF ContainsTag(classification_result_line, "ec2-autoscaling")
                THEN "ec2-autoscaling"
        ELSE "unclassified"

\* generate_ecs_cloudformation_code.py 181-201: the branch
\* generate_cloudformation_template takes.
ClassifyCloudformation(classifier_answer) ==
    IF ContainsTag(classifier_answer, "fargate") THEN "fargate"
    ELSE "unsupported"

TextIdle ==
    /\ t_pc = "idle"
    /\ text = <<>>
    /\ result = NoneVal


----------------------------------------------------------------------------
(* Generation runs: get_fixed_terraform_code, get_fixed_cloudformation_    *)
(* template and generate_docker_file.                                      *)

Absent == [tag |-> "absent", val |-> <<>>]
Pending == [tag |-> "pending", val |-> <<>>]
Raised(kind) == [tag |-> "raised", val |-> <<kind>>]

Paths == {"iac/main.tf", "iac/initial_cloudformation_template.yaml",
          "iac/fixed_cloudformation_template.yaml", "app/Dockerfile"}

\* not x, for an argument and for a response
Falsy(v) == v = ""
Empty(r) == r = <<>>

\* Variant of the precondition: only the requirement is looked at.
RequiredMissingRequirementOnly(requirement, path) == Falsy(requirement)

\* generate_ecs_cloudformation_code.py 174 and 223
RequiredMissing(requirement, path) == Falsy(requirement) \/ Falsy(path)

\* Variant of a chain invocation that issues no gateway call.
InvokeNone(c) == c

\* One invocation of a chain: one call of the gateway.
Invoke(c) == c + 1

\* The answers of the gateway to the classification prompt.
Answers == {<<"fargate">>, <<"Fargate">>, <<"ec2-autoscaling">>,
            <<"not", "fargate">>, <<"not">>, <<>>}

\* A reply holding one fenced block with a marker, one holding an empty
\* such block, and one holding no block.
Reply(marker, code) == <<"a", NL, Fence, marker, NL, code, NL, Fence>>
EmptyBlock(marker) == <<Fence, marker, NL, Fence>>
NoBlock == <<"a">>

TaskDefinitionReplies == {<<>>, NoBlock, Reply("json", "a")}
HclReplies == {Reply("hcl", "tf0"), EmptyBlock("hcl"), NoBlock}
AgentReplies == {Reply("hcl", "tf0"), Reply("hcl", "tf1"), NoBlock}
YamlReplies == {Reply("yaml", "cf0"), EmptyBlock("yaml"), NoBlock}
ReviewReplies == {Reply("yaml", "cf0"), Reply("yaml", "cf1"), EmptyBlock("yaml"),
                  NoBlock}

\* Variant of a write that leaves the files as they were.
WrittenNowhere(fs, path, content) == fs

\* The files after open(path, 'w') and write(content) went through.
Written(fs, path, content) == [fs EXCEPT ![path] = content]

\* Variant of the fix step's result without the test of lines 163-168.
ReviewResultUnchecked(extracted, template_body) == extracted

\* generate_ecs_cloudformation_code.py 163-168: an empty extraction gives
\* the template back.
ReviewResult(extracted, template_body) ==
    IF extracted = StrVal(<<>>) THEN template_body ELSE extracted
DockerfileReplies == {<<"df0">>}

Unable == <<"Unable to classify input. Please provide more details.">>

\* The pattern <fence>json\s+(.*?)\s+<fence> tried at position i: whitespace
\* after the marker and, somewhere later, whitespace right before a fence.
JsonEndsAt(t, q) ==
    \E f \in (q + 1)..Len(t) :
        t[f] = Fence /\ \A k \in q..(f - 1) : IsSpace(t[k])

JsonMatchesAt(t, i) ==
    /\ i + 2 <= Len(t)
    /\ t[i] = Fence
    /\ t[i + 1] = "json"
    /\ IsSpace(t[i + 2])
    /\ \E q \in (i + 3)..Len(t) : JsonEndsAt(t, q)

\* generate_ecs_terraform_code.py 169-174
ExtractJsonFromResponse(r) ==
    IF \E i \in 1..Len(r) : JsonMatchesAt(r, i)
       THEN LET i == CHOOSE i \in 1..Len(r) :
                        /\ JsonMatchesAt(r, i)
                        /\ \A j \in 1..(i - 1) : ~JsonMatchesAt(r, j)
                p == SkipSpace(r, i + 2)
            IN  IF \E q \in p..Len(r) : JsonEndsAt(r, q)
                   THEN LET q == CHOOSE q \in p..Len(r) :
                                    /\ JsonEndsAt(r, q)
                                    /\ \A k \in p..(q - 1) : ~JsonEndsAt(r, k)
                        IN  StrVal(Strip(SubSeq(r, p, q - 1)))
                   ELSE StrVal(<<>>)
       ELSE ValueError

\* Most calls of the ExecuteTerraform tool by one run of the repair agent.
MaxToolCalls == 2

\* How a subprocess.run of terraform can end: exit status 0, a non-zero exit
\* status (CalledProcessError under check=True), or no process at all
\* (FileNotFoundError: no terraform executable, or no directory to run in).
Exits == {"ok", "failed", "not runnable"}

Command(cmd, exit) == [cmd |-> cmd, exit |-> exit]

PlanOutput == StrVal(<<"plan output">>)
ErrorExecutingTerraform == StrVal(<<"Error executing Terraform: ", "stderr">>)

\* The outcomes of terraform plan on a file.
PlanResults(content) ==
    IF content = StrVal(Unable) \/ content = StrVal(<<>>)
       THEN {"not run", "errors"}
       ELSE {"not run", "errors", "no errors"}

GenIdle ==
    /\ g_pc = "idle"
    /\ run = None
    /\ user_input = ""
    /\ dockerfile_path = ""
    /\ dockerfile_on_disk = FALSE
    /\ project_dependency_object = ""
    /\ dependency_on_disk = FALSE
    /\ classification_result = NoneVal
    /\ task_definition_response = NoneVal
    /\ generation_response = NoneVal
    /\ generated = NoneVal
    /\ error = None
    /\ outcome = Pending
    /\ calls = 0
    /\ files = [p \in Paths |-> Absent]
    /\ agent_runs = 0
    /\ validated = {}
    /\ review_response = NoneVal
    /\ fixed_template = NoneVal
    /\ tool_calls = 0
    /\ commands = <<>>
    /\ tool_result = Pending


----------------------------------------------------------------------------
(* Two interleaved runs of get_fixed_terraform_code or of                  *)
(* get_fixed_cloudformation_template in one process.                       *)

Runs == {1, 2}
Requirements == {"requirement A", "requirement B"}

\* An artifact: the requirement it derives from and the run that wrote it.
NoArtifact == [from |-> None, writer |-> 0]
Artifact(requirement, r) == [from |-> requirement, writer |-> r]

\* generate_ecs_terraform_code.py 309, generate_ecs_cloudformation_code.py
\* 233 and 246: the same paths in every run.
IacPaths == {"iac/main.tf", "iac/initial_cloudformation_template.yaml",
             "iac/fixed_cloudformation_template.yaml"}

PairIdle ==
    /\ entry = None
    /\ r_pc = [r \in Runs |-> "idle"]
    /\ r_input = [r \in Runs |-> ""]
    /\ r_code = [r \in Runs |-> NoArtifact]
    /\ r_seen = [r \in Runs |-> NoArtifact]
    /\ r_planned = [r \in Runs |-> NoArtifact]
    /\ r_output = [r \in Runs |-> NoArtifact]
    /\ disk = [p \in IacPaths |-> NoArtifact]

\* The session before any page script ran.
PageIdle ==
    /\ page = None
    /\ p_pc = "idle"
    /\ docker_file_path = Unbound
    /\ initialized = FALSE
    /\ in_progress = FALSE
    /\ progress = 0
    /\ session_status = Unbound
    /\ text_area = ""
    /\ button = FALSE

----------------------------------------------------------------------------
Init ==
    /\ pc = "call"
    /\ fix_count = 0
    /\ dockerfile_content = Unbound
    /\ e = NoExc
    /\ container_object = NoContainer
    /\ ret = Unbound
    /\ fix_result = None
    /\ file \in Artifacts
    /\ file0 = file
    /\ containers = {}
    /\ status = None
    /\ attempts = 0
    /\ builds = 0
    /\ failures = 0
    /\ repairs = 0
    /\ ops = <<>>
    /\ log = <<>>
    /\ prompt = NoPrompt
    /\ rewritten = FALSE
    /\ TextIdle
    /\ GenIdle
    /\ PairIdle
    /\ PageIdle

\* lines 28-46: a frame of build_docker_image starts.
Enter ==
    /\ pc = "call"
    /\ fix_count' = NextCount(fix_count)
    /\ dockerfile_content' = Unbound
    /\ e' = NoExc
    /\ container_object' = NoContainer
    /\ status' = None
    /\ fix_result' = None
    /\ prompt' = NoPrompt
    /\ attempts' = Inc(attempts)
    /\ ops' = <<>>
    /\ pc' = "from_env"
    /\ UNCHANGED <<ret, file, containers, file0, builds, failures, repairs, log,
                   rewritten>>
    /\ UNCHANGED beyondDocker

\* lines 47-48: client = docker.from_env(); dockerfile_content=""
FromEnv ==
    /\ pc = "from_env"
    /\ \/ /\ dockerfile_content' = ""
          /\ pc' = "open"
          /\ UNCHANGED e
       \/ /\ Raise("Exception")
          /\ UNCHANGED dockerfile_content
    /\ UNCHANGED <<fix_count, container_object, ret, fix_result, prompt, world, observers>>
    /\ UNCHANGED beyondDocker

\* lines 50-52: the Dockerfile is read.
ReadDockerfile ==
    /\ pc = "open"
    /\ \/ /\ dockerfile_content' = file
          /\ pc' = "build"
          /\ UNCHANGED e
       \/ /\ Raise("Exception")
          /\ UNCHANGED dockerfile_content
    /\ UNCHANGED <<fix_count, container_object, ret, fix_result, prompt, world, observers>>
    /\ UNCHANGED beyondDocker

\* lines 54-63: client.images.build on the directory of the Dockerfile.
Build ==
    /\ pc = "build"
    /\ builds' = Inc(builds)
    /\ ops' = Append(ops, "build")
    /\ rewritten' = FALSE
    /\ \/ /\ pc' = "run"
          /\ UNCHANGED e
       \/ Raise("BuildError")
       \/ Raise("APIError")
       \/ Raise("Exception")
    /\ UNCHANGED <<fix_count, dockerfile_content, container_object, ret, fix_result,
                   prompt, world, attempts, failures, repairs, log>>
    /\ UNCHANGED beyondDocker

\* lines 16-26 and 64-67: run_container, client.containers.run(detach=True):
\* the container is created, then started; the call returns without waiting,
\* so the process may be running or may have exited already.
RunContainer ==
    /\ pc = "run"
    /\ ops' = Append(ops, "run")
    /\ \/ /\ FreeIds # {}
          /\ containers' = containers \cup {NewId}
          /\ container_object' = NewId
          /\ \E st \in {"running", "exited"} : status' = st
          /\ pc' = "stop"
          /\ UNCHANGED e
       \/ /\ FreeIds # {}
          /\ containers' = containers \cup {NewId}
          /\ Raise("APIError")
          /\ UNCHANGED <<container_object, status>>
       \/ /\ Raise("APIError")
          /\ UNCHANGED <<container_object, status, containers>>
       \/ /\ Raise("Exception")
          /\ UNCHANGED <<container_object, status, containers>>
    /\ UNCHANGED <<fix_count, dockerfile_content, ret, fix_result, prompt, file,
                   file0, attempts, builds, failures, repairs, log, rewritten>>
    /\ UNCHANGED beyondDocker

\* Variant of lines 68-69: the container is removed without being stopped.
StopSkipped ==
    /\ pc = "stop"
    /\ pc' = "remove"
    /\ UNCHANGED <<locals, world, observers>>
    /\ UNCHANGED beyondDocker

\* lines 68-69: container_object.stop()
Stop ==
    /\ pc = "stop"
    /\ ops' = Append(ops, "stop")
    /\ \/ /\ status' = IF status = "running" THEN "stopped" ELSE status
          /\ pc' = "remove"
          /\ UNCHANGED e
       \/ /\ Raise("APIError")
          /\ UNCHANGED status
       \/ /\ Raise("Exception")
          /\ UNCHANGED status
    /\ UNCHANGED <<fix_count, dockerfile_content, container_object, ret, fix_result,
                   prompt, file, containers, file0, attempts, builds, failures,
                   repairs, log, rewritten>>
    /\ UNCHANGED beyondDocker

\* lines 70-71: container_object.remove(), then the function returns None.
Remove ==
    /\ pc = "remove"
    /\ ops' = Append(ops, "remove")
    /\ \/ /\ containers' = containers \ {container_object}
          /\ pc' = "done"
          /\ ret' = None
          /\ UNCHANGED e
       \/ /\ Raise("APIError")
          /\ UNCHANGED <<containers, ret>>
       \/ /\ Raise("Exception")
          /\ UNCHANGED <<containers, ret>>
    /\ UNCHANGED <<fix_count, dockerfile_content, container_object, fix_result,
                   prompt, file, status, file0, attempts, builds, failures,
                   repairs, log, rewritten>>
    /\ UNCHANGED beyondDocker

\* lines 73-76 and 80-83: the error is logged; past the ceiling the run
\* returns None, otherwise the repair follows.
Handle ==
    /\ log' = KeepLast(log, Str(e), MaxLog)
    /\ failures' = Inc(failures)
    /\ IF Exhausted(fix_count)
          THEN pc' = "aborted" /\ ret' = None
          ELSE pc' = "fix" /\ UNCHANGED ret
    /\ UNCHANGED <<fix_count, dockerfile_content, e, container_object, fix_result,
                   prompt, world, attempts, builds, repairs, ops, rewritten>>
    /\ UNCHANGED beyondDocker

\* lines 72-76
ExceptBuildError ==
    /\ pc = "except_BuildError"
    /\ Handle

\* lines 79-83
ExceptAPIError ==
    /\ pc = "except_APIError"
    /\ Handle

\* lines 77-78 and 84-85 with fix_docker_build_issue (generate_docker_file.py
\* 85-108): the prompt is sent, the answer is written over the Dockerfile,
\* every exception is swallowed; the caller drops the result and calls
\* build_docker_image again with fix_count.
FixDockerBuildIssue ==
    /\ pc = "fix"
    /\ repairs' = Inc(repairs)
    /\ \/ \* get_model() raises: no prompt leaves the process
          /\ prompt' = NoPrompt
          /\ fix_result' = "False"
          /\ UNCHANGED <<file, rewritten>>
       \/ \* llm_chain.invoke raises
          /\ prompt' = FormatPrompt(e, dockerfile_content)
          /\ fix_result' = "False"
          /\ UNCHANGED <<file, rewritten>>
       \/ \* the gateway answers; create_dockerfile writes or fails silently
          \E response \in Artifacts, ok \in BOOLEAN :
              /\ prompt' = FormatPrompt(e, dockerfile_content)
              /\ file' = CreateDockerfile(file, response, ok)
              /\ rewritten' = (rewritten \/ ok)
              /\ fix_result' = "True"
    /\ pc' = "call"
    /\ UNCHANGED <<fix_count, dockerfile_content, e, container_object, ret,
                   containers, status, file0, attempts, builds, failures, ops,
                   log>>
    /\ UNCHANGED beyondDocker

\* lines 86-87: any other exception is logged and the function returns None.
ExceptException ==
    /\ pc = "except_Exception"
    /\ pc' = "unexpected"
    /\ ret' = None
    /\ UNCHANGED <<fix_count, dockerfile_content, e, container_object, fix_result,
                   prompt, world, observers>>
    /\ UNCHANGED beyondDocker

Next ==
    \/ Enter
    \/ FromEnv
    \/ ReadDockerfile
    \/ Build
    \/ RunContainer
    \/ Stop
    \/ Remove
    \/ ExceptBuildError
    \/ ExceptAPIError
    \/ FixDockerBuildIssue
    \/ ExceptException

Spec == Init /\ [][Next]_vars

\* The run is one synchronous thread: a call that returns lets the next
\* statement run.
FairSpec == Spec /\ WF_vars(Next)

TypeOK ==
    /\ pc \in {"call", "from_env", "open", "build", "run", "stop", "remove",
               "except_BuildError", "except_APIError", "except_Exception",
               "fix"} \cup Terminal
    /\ fix_count \in 0..(Ceiling + 1)
    /\ file \in Artifacts
    /\ containers \subseteq 1..MaxContainers

----------------------------------------------------------------------------
(* The text functions applied to every short text. *)

\* build_docker_image is not running.
DockerIdle ==
    /\ pc = "idle"
    /\ fix_count = 0
    /\ dockerfile_content = Unbound
    /\ e = NoExc
    /\ container_object = NoContainer
    /\ ret = Unbound
    /\ fix_result = None
    /\ prompt = NoPrompt
    /\ file = "FROM python:latest"
    /\ file0 = file
    /\ containers = {}
    /\ status = None
    /\ attempts = 0
    /\ builds = 0
    /\ failures = 0
    /\ repairs = 0
    /\ ops = <<>>
    /\ log = <<>>
    /\ rewritten = FALSE

InitText ==
    /\ DockerIdle
    /\ GenIdle
    /\ PairIdle
    /\ PageIdle
    /\ result = NoneVal
    /\ \/ t_pc = "yaml_response" /\ text \in ResponsesOver("yaml", MaxLines)
       \/ t_pc = "hcl_response" /\ text \in ResponsesOver("hcl", MaxLines)
       \/ t_pc = "yaml_response" /\ text \in BlockResponses("yaml", MaxBlocks)
       \/ t_pc = "hcl_response" /\ text \in BlockResponses("hcl", MaxBlocks)
       \/ t_pc = "answer" /\ text \in TextsOver(AnswerTokens, MaxAnswer)

Apply(at, name, value) ==
    /\ t_pc = at
    /\ t_pc' = name
    /\ result' = value
    /\ UNCHANGED <<text, beyondText>>

\* generate_ecs_cloudformation_code.py 114-120
ExtractYaml == Apply("yaml_response", "extract_yaml_from_response",
                     ExtractYamlFromResponse(text))

\* generate_ecs_terraform_code.py 297-305
ExtractTerraform == Apply("hcl_response", "extract_terraform_code_from_output",
                          ExtractTerraformCodeFromOutput(text))

\* generate_ecs_terraform_code.py 238-288
ClassifyForTerraform == Apply("answer", "generate_terraform_code",
                              [tag |-> ClassifyTerraform(text), val |-> <<>>])

\* generate_ecs_cloudformation_code.py 181-201
ClassifyForCloudformation == Apply("answer", "generate_cloudformation_template",
                                   [tag |-> ClassifyCloudformation(text), val |-> <<>>])

NextText ==
    \/ ExtractYaml
    \/ ExtractTerraform
    \/ ClassifyForTerraform
    \/ ClassifyForCloudformation

SpecText == InitText /\ [][NextText]_vars

----------------------------------------------------------------------------
(* Generation runs *)

InitGen ==
    /\ DockerIdle
    /\ TextIdle
    /\ PairIdle
    /\ PageIdle
    /\ g_pc = "start"
    /\ classification_result = NoneVal
    /\ task_definition_response = NoneVal
    /\ generation_response = NoneVal
    /\ generated = NoneVal
    /\ error = None
    /\ outcome = Pending
    /\ calls = 0
    /\ files = [p \in Paths |-> Absent]
    /\ agent_runs = 0
    /\ validated = {}
    /\ review_response = NoneVal
    /\ fixed_template = NoneVal
    /\ tool_calls = 0
    /\ commands = <<>>
    /\ tool_result = Pending
    /\ \/ /\ run \in {"get_fixed_terraform_code", "get_fixed_cloudformation_template"}
          /\ user_input \in {"", "deploy the app on ECS"}
          /\ dockerfile_path \in {"", "app/Dockerfile"}
          /\ dockerfile_on_disk \in BOOLEAN
          /\ dockerfile_path = "" => ~dockerfile_on_disk
          /\ project_dependency_object = ""
          /\ dependency_on_disk = FALSE
       \/ /\ run = "generate_docker_file"
          /\ user_input = ""
          /\ dockerfile_path = ""
          /\ dockerfile_on_disk = FALSE
          /\ project_dependency_object \in {"", "app/requirements.txt"}
          /\ dependency_on_disk \in BOOLEAN
          /\ project_dependency_object = "" => ~dependency_on_disk

At(r, at) == run = r /\ g_pc = at

Goto(to) == g_pc' = to /\ UNCHANGED <<error, outcome>>

Returns(v) == g_pc' = "returned" /\ outcome' = v /\ UNCHANGED error

\* An exception no handler of the run catches.
Raises(kind) == g_pc' = "raised" /\ outcome' = Raised(kind) /\ error' = kind

\* An exception the handler of the entry function turns into a return value.
Caught(kind, v) == g_pc' = "returned" /\ outcome' = v /\ error' = kind

Ended == g_pc \in {"returned", "raised"}

TF == "get_fixed_terraform_code"
CF == "get_fixed_cloudformation_template"
GDF == "generate_docker_file"

\* generate_ecs_terraform_code.py 235-240, 263, 286-288
SupervisorChainTf ==
    /\ At(TF, "start")
    /\ calls' = Invoke(calls)
    /\ \E answer \in Answers :
         /\ classification_result' = StrVal(answer)
         /\ IF ClassifyTerraform(answer) = "unclassified"
               THEN generated' = StrVal(Unable) /\ Goto("write")
               ELSE generated' = generated /\ Goto("cluster")
    /\ UNCHANGED <<inputs, task_definition_response, generation_response, files,
                   agent_runs, validated, reviewvars, toolvars, beyondGen>>

\* generate_ecs_terraform_code.py 242, 265
ClusterChainTf ==
    /\ At(TF, "cluster")
    /\ calls' = Invoke(calls)
    /\ Goto("read")
    /\ UNCHANGED <<inputs, classification_result, task_definition_response,
                   generation_response, generated, files, agent_runs, validated, reviewvars, toolvars, beyondGen>>

\* generate_ecs_terraform_code.py 165-167, 246, 269
ReadDockerfileTf ==
    /\ At(TF, "read")
    /\ IF dockerfile_on_disk THEN Goto("task_definition")
                             ELSE Raises("FileNotFoundError")
    /\ UNCHANGED <<inputs, classification_result, task_definition_response,
                   generation_response, generated, calls, files, agent_runs, validated,
                   reviewvars, toolvars, beyondGen>>

\* generate_ecs_terraform_code.py 250-256, 273-279
TaskDefinitionTf ==
    /\ At(TF, "task_definition")
    /\ calls' = Invoke(calls)
    /\ \E r \in TaskDefinitionReplies :
         /\ task_definition_response' = StrVal(r)
         /\ IF Empty(r) \/ ExtractJsonFromResponse(r) = ValueError
               THEN Raises("ValueError")
               ELSE Goto("generate")
    /\ UNCHANGED <<inputs, classification_result, generation_response, generated, files,
                   agent_runs, validated, reviewvars, toolvars, beyondGen>>

\* generate_ecs_terraform_code.py 154-163, 258-262, 281-285, 290; the final
\* chain runs the task definition chain again before the generation prompt.
TerraformGeneration ==
    /\ At(TF, "generate")
    /\ calls' = Invoke(Invoke(calls))
    /\ \E r \in HclReplies :
         /\ generation_response' = StrVal(r)
         /\ generated' = ExtractTerraformCodeFromOutput(r)
    /\ Goto("write")
    /\ UNCHANGED <<inputs, classification_result, task_definition_response,
                   files, agent_runs, validated, reviewvars, toolvars, beyondGen>>

\* generate_ecs_terraform_code.py 308-314: open() creates or truncates the
\* file, write(None) raises TypeError.
WriteMainTf ==
    /\ At(TF, "write")
    /\ IF generated = NoneVal
          THEN /\ files' = [files EXCEPT !["iac/main.tf"] = StrVal(<<>>)]
               /\ Raises("TypeError")
          ELSE /\ files' = [files EXCEPT !["iac/main.tf"] = generated]
               /\ Goto("regenerate")
    /\ UNCHANGED <<inputs, classification_result, task_definition_response,
                   generation_response, generated, calls, agent_runs, validated, reviewvars, toolvars, beyondGen>>

\* generate_ecs_terraform_code.py 319-336: the agent is invoked on a query
\* that names the file; its first step asks the model what to do.
RegenerateTerraformCodeIfError ==
    /\ At(TF, "regenerate")
    /\ calls' = Invoke(calls)
    /\ agent_runs' = agent_runs + 1
    /\ tool_calls' = 0
    /\ commands' = <<>>
    /\ tool_result' = Pending
    /\ Goto("agent")
    /\ UNCHANGED <<inputs, classification_result, task_definition_response,
                   generation_response, generated, files, validated, reviewvars,
                   beyondGen>>

\* generate_ecs_terraform_code.py 198-215, 228-230: the agent calls the
\* ExecuteTerraform tool, which runs terraform init. A non-zero exit is
\* caught and returned as text, and the model is asked again; an exception
\* other than CalledProcessError leaves the tool and the agent.
TerraformInit ==
    /\ At(TF, "agent")
    /\ tool_calls < MaxToolCalls
    /\ tool_calls' = tool_calls + 1
    /\ \E exit \in Exits :
         /\ commands' = <<Command("init", exit)>>
         /\ CASE exit = "ok" ->
                   /\ tool_result' = Pending
                   /\ calls' = calls
                   /\ Goto("plan")
              [] exit = "failed" ->
                   /\ tool_result' = ErrorExecutingTerraform
                   /\ calls' = Invoke(calls)
                   /\ Goto("agent")
              [] exit = "not runnable" ->
                   /\ tool_result' = Raised("FileNotFoundError")
                   /\ calls' = calls
                   /\ Raises("FileNotFoundError")
    /\ UNCHANGED <<inputs, classification_result, task_definition_response,
                   generation_response, generated, files, agent_runs, validated,
                   reviewvars, beyondGen>>

\* generate_ecs_terraform_code.py 217-230: terraform plan in the same call.
TerraformPlan ==
    /\ At(TF, "plan")
    /\ \E exit \in Exits :
         /\ exit = "ok" => "no errors" \in PlanResults(files["iac/main.tf"])
         /\ commands' = Append(commands, Command("plan", exit))
         /\ validated' = IF exit = "ok" THEN validated \cup {files["iac/main.tf"]}
                                        ELSE validated
         /\ CASE exit = "ok" ->
                   /\ tool_result' = PlanOutput
                   /\ calls' = Invoke(calls)
                   /\ Goto("agent")
              [] exit = "failed" ->
                   /\ tool_result' = ErrorExecutingTerraform
                   /\ calls' = Invoke(calls)
                   /\ Goto("agent")
              [] exit = "not runnable" ->
                   /\ tool_result' = Raised("FileNotFoundError")
                   /\ calls' = calls
                   /\ Raises("FileNotFoundError")
    /\ UNCHANGED <<inputs, classification_result, task_definition_response,
                   generation_response, generated, files, agent_runs, tool_calls,
                   reviewvars, beyondGen>>

\* generate_ecs_terraform_code.py 336-339, 316-317: whatever the agent
\* answers in the end is extracted and returned.
AgentAnswer ==
    /\ At(TF, "agent")
    /\ \E agent_output \in AgentReplies :
         Returns(ExtractTerraformCodeFromOutput(agent_output))
    /\ UNCHANGED <<inputs, classification_result, task_definition_response,
                   generation_response, generated, calls, files, agent_runs, validated,
                   reviewvars, toolvars, beyondGen>>

\* generate_ecs_cloudformation_code.py 223-224 (and again 174-175)
CheckInputsCf ==
    /\ At(CF, "start")
    /\ IF RequiredMissing(user_input, dockerfile_path)
          THEN Caught("ValueError", NoneVal)
          ELSE Goto("classify")
    /\ UNCHANGED <<inputs, classification_result, task_definition_response,
                   generation_response, generated, calls, files, agent_runs, validated,
                   reviewvars, toolvars, beyondGen>>

\* generate_ecs_cloudformation_code.py 178-181, 199-201, 215-217, 256-258
SupervisorChainCf ==
    /\ At(CF, "classify")
    /\ calls' = Invoke(calls)
    /\ \E answer \in Answers :
         /\ classification_result' = StrVal(answer)
         /\ IF ClassifyCloudformation(answer) = "unsupported"
               THEN Caught("ValueError", NoneVal)
               ELSE Goto("cluster")
    /\ UNCHANGED <<inputs, task_definition_response, generation_response, generated, files,
                   agent_runs, validated, reviewvars, toolvars, beyondGen>>

\* generate_ecs_cloudformation_code.py 183
ClusterChainCf ==
    /\ At(CF, "cluster")
    /\ calls' = Invoke(calls)
    /\ Goto("read")
    /\ UNCHANGED <<inputs, classification_result, task_definition_response,
                   generation_response, generated, files, agent_runs, validated, reviewvars, toolvars, beyondGen>>

\* generate_ecs_cloudformation_code.py 103-112, 187, 215-217, 256-258
ReadDockerfileCf ==
    /\ At(CF, "read")
    /\ IF dockerfile_on_disk THEN Goto("task_definition")
                             ELSE Caught("FileNotFoundError", NoneVal)
    /\ UNCHANGED <<inputs, classification_result, task_definition_response,
                   generation_response, generated, calls, files, agent_runs, validated,
                   reviewvars, toolvars, beyondGen>>

\* generate_ecs_cloudformation_code.py 191: the answer is passed on unchecked.
TaskDefinitionCf ==
    /\ At(CF, "task_definition")
    /\ calls' = Invoke(calls)
    /\ \E r \in TaskDefinitionReplies : task_definition_response' = StrVal(r)
    /\ Goto("generate")
    /\ UNCHANGED <<inputs, classification_result, generation_response, generated, files,
                   agent_runs, validated, reviewvars, toolvars, beyondGen>>

\* generate_ecs_cloudformation_code.py 97-101, 195-209
CloudformationGeneration ==
    /\ At(CF, "generate")
    /\ calls' = Invoke(Invoke(calls))
    /\ \E r \in YamlReplies :
         /\ generation_response' = StrVal(r)
         /\ IF ExtractYamlFromResponse(r) \in {ValueError, StrVal(<<>>)}
               THEN generated' = generated /\ Caught("ValueError", NoneVal)
               ELSE generated' = ExtractYamlFromResponse(r) /\ Goto("write_initial")
    /\ UNCHANGED <<inputs, classification_result, task_definition_response,
                   files, agent_runs, validated, reviewvars, toolvars, beyondGen>>

\* generate_ecs_cloudformation_code.py 122-131, 232-235
WriteInitialTemplate ==
    /\ At(CF, "write_initial")
    /\ \E ok \in BOOLEAN :
         IF ok THEN /\ files' = Written(files, "iac/initial_cloudformation_template.yaml",
                                        generated)
                    /\ Goto("regenerate")
               ELSE /\ files' = files
                    /\ Caught("OSError", NoneVal)
    /\ UNCHANGED <<inputs, classification_result, task_definition_response,
                   generation_response, generated, calls, agent_runs, validated,
                   reviewvars, toolvars, beyondGen>>

\* generate_ecs_cloudformation_code.py 142-168, 241, 256-258: the review by
\* the model; the gateway may fail, and an answer without a yaml block
\* raises ValueError, which the handler of the entry function turns into None.
RegenerateCloudformationTemplateIfError ==
    /\ At(CF, "regenerate")
    /\ calls' = Invoke(calls)
    /\ agent_runs' = agent_runs + 1
    /\ \/ /\ Caught("Exception", NoneVal)
          /\ UNCHANGED reviewvars
       \/ \E r \in ReviewReplies :
            /\ review_response' = StrVal(r)
            /\ IF ExtractYamlFromResponse(r) = ValueError
                  THEN /\ fixed_template' = fixed_template
                       /\ Caught("ValueError", NoneVal)
                  ELSE /\ fixed_template' = ReviewResult(ExtractYamlFromResponse(r),
                                                         generated)
                       /\ Goto("write_fixed")
    /\ UNCHANGED <<inputs, classification_result, task_definition_response,
                   generation_response, generated, files, validated, toolvars,
                   beyondGen>>

\* generate_ecs_cloudformation_code.py 243-258
WriteFixedTemplate ==
    /\ At(CF, "write_fixed")
    /\ IF fixed_template # StrVal(<<>>)
          THEN /\ \E ok \in BOOLEAN :
                    IF ok THEN /\ files' = Written(files,
                                       "iac/fixed_cloudformation_template.yaml",
                                       fixed_template)
                               /\ Returns(fixed_template)
                          ELSE /\ files' = files
                               /\ Caught("OSError", NoneVal)
               /\ UNCHANGED reviewvars
          ELSE /\ fixed_template' = generated
               /\ Returns(generated)
               /\ UNCHANGED <<files, review_response>>
    /\ UNCHANGED <<inputs, classification_result, task_definition_response,
                   generation_response, generated, calls, agent_runs, validated,
                   toolvars, beyondGen>>

\* generate_docker_file.py 122-131, 161-164
OpenDependencyObject ==
    /\ At(GDF, "start")
    /\ IF Falsy(project_dependency_object)
          THEN Caught("ValueError", StrVal(<<>>))
       ELSE IF ~dependency_on_disk
          THEN Caught("FileNotFoundError", StrVal(<<>>))
       ELSE Goto("info")
    /\ UNCHANGED <<inputs, classification_result, task_definition_response,
                   generation_response, generated, calls, files, agent_runs, validated,
                   reviewvars, toolvars, beyondGen>>

\* generate_docker_file.py 132-139
DockerfileInfo ==
    /\ At(GDF, "info")
    /\ calls' = Invoke(calls)
    /\ \/ Goto("generate")
       \/ Caught("Exception", StrVal(<<>>))
    /\ UNCHANGED <<inputs, classification_result, task_definition_response,
                   generation_response, generated, files, agent_runs, validated, reviewvars, toolvars, beyondGen>>

\* generate_docker_file.py 63-83, 147-160: create_dockerfile reports a failed
\* write in its result, which is not looked at.
DockerfileGeneration ==
    /\ At(GDF, "generate")
    /\ calls' = Invoke(calls)
    /\ \/ /\ Caught("Exception", StrVal(<<>>))
          /\ UNCHANGED <<generation_response, files>>
       \/ \E r \in DockerfileReplies, ok \in BOOLEAN :
            /\ generation_response' = StrVal(r)
            /\ files' = IF ok THEN Written(files, "app/Dockerfile", StrVal(r))
                              ELSE files
            /\ Returns(StrVal(<<"app/Dockerfile">>))
    /\ UNCHANGED <<inputs, classification_result, task_definition_response,
                   generated, agent_runs, validated, reviewvars, toolvars, beyondGen>>

NextGen ==
    \/ SupervisorChainTf
    \/ ClusterChainTf
    \/ ReadDockerfileTf
    \/ TaskDefinitionTf
    \/ TerraformGeneration
    \/ WriteMainTf
    \/ RegenerateTerraformCodeIfError
    \/ TerraformInit
    \/ TerraformPlan
    \/ AgentAnswer
    \/ CheckInputsCf
    \/ SupervisorChainCf
    \/ ClusterChainCf
    \/ ReadDockerfileCf
    \/ TaskDefinitionCf
    \/ CloudformationGeneration
    \/ WriteInitialTemplate
    \/ RegenerateCloudformationTemplateIfError
    \/ WriteFixedTemplate
    \/ OpenDependencyObject
    \/ DockerfileInfo
    \/ DockerfileGeneration

SpecGen == InitGen /\ [][NextGen]_vars

----------------------------------------------------------------------------
(* Two interleaved runs *)

InitPair ==
    /\ DockerIdle
    /\ TextIdle
    /\ GenIdle
    /\ PageIdle
    /\ entry \in {TF, CF}
    /\ r_pc = [r \in Runs |-> "start"]
    /\ r_input \in [Runs -> Requirements]
    /\ r_code = [r \in Runs |-> NoArtifact]
    /\ r_seen = [r \in Runs |-> NoArtifact]
    /\ r_planned = [r \in Runs |-> NoArtifact]
    /\ r_output = [r \in Runs |-> NoArtifact]
    /\ disk = [p \in IacPaths |-> NoArtifact]

RunAt(r, e0, at) == entry = e0 /\ r_pc[r] = at

Step(r, to) == r_pc' = [r_pc EXCEPT ![r] = to]

\* generate_ecs_terraform_code.py 232-295 / generate_ecs_cloudformation_code.py
\* 170-217: the generation stages touch nothing but the gateway; they give a
\* code derived from the run's requirement or end the run.
GenerateOf(r) ==
    /\ r_pc[r] = "start"
    /\ \E ok \in BOOLEAN :
         IF ok THEN /\ r_code' = [r_code EXCEPT ![r] = Artifact(r_input[r], r)]
                    /\ Step(r, "write")
               ELSE /\ r_code' = r_code
                    /\ Step(r, "failed")
    /\ UNCHANGED <<entry, r_input, r_seen, r_planned, r_output, disk, beyondPair>>

\* generate_ecs_terraform_code.py 309-314
WriteMainTfOf(r) ==
    /\ RunAt(r, TF, "write")
    /\ disk' = [disk EXCEPT !["iac/main.tf"] = r_code[r]]
    /\ Step(r, "read_files")
    /\ UNCHANGED <<entry, r_input, r_code, r_seen, r_planned, r_output, beyondPair>>

\* generate_ecs_terraform_code.py 176-196, 323: the agent's ReadFiles tool
\* on iac/main.tf.
ReadFilesOf(r) ==
    /\ RunAt(r, TF, "read_files")
    /\ r_seen' = [r_seen EXCEPT ![r] = disk["iac/main.tf"]]
    /\ Step(r, "execute_terraform")
    /\ UNCHANGED <<entry, r_input, r_code, r_planned, r_output, disk, beyondPair>>

\* generate_ecs_terraform_code.py 198-230, 324: the agent's ExecuteTerraform
\* tool plans what is in the directory of iac/main.tf.
ExecuteTerraformOf(r) ==
    /\ RunAt(r, TF, "execute_terraform")
    /\ r_planned' = [r_planned EXCEPT ![r] = disk["iac/main.tf"]]
    /\ Step(r, "answer")
    /\ UNCHANGED <<entry, r_input, r_code, r_seen, r_output, disk, beyondPair>>

\* generate_ecs_terraform_code.py 334-339, 316-317: the agent's query holds
\* the file path only, so its answer derives from what ReadFiles gave it.
AgentAnswerOf(r) ==
    /\ RunAt(r, TF, "answer")
    /\ r_output' = [r_output EXCEPT ![r] = r_seen[r]]
    /\ Step(r, "returned")
    /\ UNCHANGED <<entry, r_input, r_code, r_seen, r_planned, disk, beyondPair>>

\* generate_ecs_cloudformation_code.py 232-235
WriteInitialTemplateOf(r) ==
    /\ RunAt(r, CF, "write")
    /\ disk' = [disk EXCEPT !["iac/initial_cloudformation_template.yaml"] = r_code[r]]
    /\ Step(r, "review")
    /\ UNCHANGED <<entry, r_input, r_code, r_seen, r_planned, r_output, beyondPair>>

\* generate_ecs_cloudformation_code.py 142-168, 241: the review gets the
\* template as an argument, not from the file.
ReviewOf(r) ==
    /\ RunAt(r, CF, "review")
    /\ r_seen' = [r_seen EXCEPT ![r] = r_code[r]]
    /\ Step(r, "write_fixed")
    /\ UNCHANGED <<entry, r_input, r_code, r_planned, r_output, disk, beyondPair>>

\* generate_ecs_cloudformation_code.py 243-254
WriteFixedTemplateOf(r) ==
    /\ RunAt(r, CF, "write_fixed")
    /\ disk' = [disk EXCEPT !["iac/fixed_cloudformation_template.yaml"] = r_seen[r]]
    /\ r_output' = [r_output EXCEPT ![r] = r_seen[r]]
    /\ Step(r, "returned")
    /\ UNCHANGED <<entry, r_input, r_code, r_seen, r_planned, beyondPair>>

NextPair ==
    \/ \E r \in Runs : GenerateOf(r)
    \/ \E r \in Runs : WriteMainTfOf(r)
    \/ \E r \in Runs : ReadFilesOf(r)
    \/ \E r \in Runs : ExecuteTerraformOf(r)
    \/ \E r \in Runs : AgentAnswerOf(r)
    \/ \E r \in Runs : WriteInitialTemplateOf(r)
    \/ \E r \in Runs : ReviewOf(r)
    \/ \E r \in Runs : WriteFixedTemplateOf(r)

SpecPair == InitPair /\ [][NextPair]_vars

----------------------------------------------------------------------------
(* The Terraform page and the CloudFormation page: script runs of one      *)
(* session, each of which may start a generation run.                     *)

TerraformPage == "2_terraform_generation.py"
CloudformationPage == "3_cloudformation_generation.py"

NotStarted == "Not started"

\* 2_terraform_generation.py 31, 3_cloudformation_generation.py 33
CompletedSuccessfully(pg) ==
    IF pg = TerraformPage
       THEN "Terraform code generation completed successfully."
       ELSE "CloudFormation code generation completed successfully."

\* 2_terraform_generation.py 42, 3_cloudformation_generation.py 46
ErrorStatus == "Error: {e}"

\* The entry function a page calls.
EntryOf(pg) == IF pg = TerraformPage THEN TF ELSE CF

\* The session when the page is opened; docker_file_path is left by the
\* Dockerfile page: missing, None or a path.
InitPage ==
    /\ DockerIdle
    /\ TextIdle
    /\ PairIdle
    /\ GenIdle
    /\ page \in {TerraformPage, CloudformationPage}
    /\ p_pc = "idle"
    /\ docker_file_path \in {Unbound, None, "app/Dockerfile"}
    /\ initialized = FALSE
    /\ in_progress = FALSE
    /\ progress = 0
    /\ session_status = Unbound
    /\ text_area = ""
    /\ button = FALSE

\* The user opens the page, edits the text area or presses the button: the
\* script runs from its first line.
ScriptRun ==
    /\ p_pc = "idle"
    /\ p_pc' = "check_path"
    /\ text_area' \in {"", "deploy the app on ECS"}
    /\ button' \in BOOLEAN
    /\ UNCHANGED <<page, docker_file_path, initialized, in_progress, progress,
                   session_status>>
    /\ UNCHANGED <<genvars, beyondPage>>

\* lines 9-12 of both pages: st.stop() without a Dockerfile path.
CheckDockerFilePath ==
    /\ p_pc = "check_path"
    /\ p_pc' = IF docker_file_path \in {Unbound, None} THEN "idle" ELSE "init"
    /\ UNCHANGED <<page, docker_file_path, initialized, in_progress, progress,
                   session_status, text_area, button>>
    /\ UNCHANGED <<genvars, beyondPage>>

\* lines 14-20 of both pages: keys missing from the session get their
\* first values.
InitializeSessionState ==
    /\ p_pc = "init"
    /\ initialized' = TRUE
    /\ progress' = IF initialized THEN progress ELSE 0
    /\ session_status' = IF initialized THEN session_status ELSE NotStarted
    /\ in_progress' = IF initialized THEN in_progress ELSE FALSE
    /\ p_pc' = "button"
    /\ UNCHANGED <<page, docker_file_path, text_area, button>>
    /\ UNCHANGED <<genvars, beyondPage>>

\* 2_terraform_generation.py 54-62, 3_cloudformation_generation.py 58-66
GenerateButton ==
    /\ p_pc = "button"
    /\ IF in_progress \/ ~button \/ text_area = ""
          THEN p_pc' = "idle" /\ UNCHANGED in_progress
          ELSE p_pc' = "call" /\ in_progress' = TRUE
    /\ UNCHANGED <<page, docker_file_path, initialized, progress, session_status,
                   text_area, button>>
    /\ UNCHANGED <<genvars, beyondPage>>

\* 2_terraform_generation.py 63, 25-30, 3_cloudformation_generation.py 67,
\* 25-31: the entry function is called with the text and the path; the files
\* of earlier runs are still on disk.
CallEntryFunction ==
    /\ p_pc = "call"
    /\ p_pc' = "running"
    /\ g_pc' = "start"
    /\ run' = EntryOf(page)
    /\ user_input' = text_area
    /\ dockerfile_path' = docker_file_path
    /\ dockerfile_on_disk' \in BOOLEAN
    /\ UNCHANGED <<project_dependency_object, dependency_on_disk,
                   classification_result, task_definition_response,
                   generation_response, generated, error, outcome, calls, files,
                   agent_runs, validated, reviewvars, toolvars>>
    /\ UNCHANGED <<page, docker_file_path, initialized, in_progress, progress,
                   session_status, text_area, button>>
    /\ UNCHANGED beyondPage

\* 2_terraform_generation.py 30-43: whatever get_fixed_terraform_code
\* returns is reported as a success; an exception is reported as an error.
TerraformResult ==
    /\ p_pc = "running"
    /\ page = TerraformPage
    /\ Ended
    /\ IF outcome.tag = "raised"
          THEN /\ session_status' = ErrorStatus
               /\ UNCHANGED progress
          ELSE /\ session_status' = CompletedSuccessfully(page)
               /\ progress' = 100
    /\ p_pc' = "finally"
    /\ UNCHANGED <<page, docker_file_path, initialized, in_progress, text_area,
                   button>>
    /\ UNCHANGED <<genvars, beyondPage>>

\* 3_cloudformation_generation.py 31-47: a falsy template raises ValueError,
\* which the handler reports like any exception.
CloudformationResult ==
    /\ p_pc = "running"
    /\ page = CloudformationPage
    /\ Ended
    /\ IF outcome.tag = "str" /\ outcome.val # <<>>
          THEN /\ session_status' = CompletedSuccessfully(page)
               /\ progress' = 100
          ELSE /\ session_status' = ErrorStatus
               /\ UNCHANGED progress
    /\ p_pc' = "finally"
    /\ UNCHANGED <<page, docker_file_path, initialized, in_progress, text_area,
                   button>>
    /\ UNCHANGED <<genvars, beyondPage>>

\* 2_terraform_generation.py 44-45, 3_cloudformation_generation.py 48-49;
\* the script run ends and the locals of the call are gone.
Finally ==
    /\ p_pc = "finally"
    /\ in_progress' = FALSE
    /\ p_pc' = "idle"
    /\ g_pc' = "idle"
    /\ run' = None
    /\ user_input' = ""
    /\ dockerfile_path' = ""
    /\ dockerfile_on_disk' = FALSE
    /\ classification_result' = NoneVal
    /\ task_definition_response' = NoneVal
    /\ generation_response' = NoneVal
    /\ generated' = NoneVal
    /\ error' = None
    /\ outcome' = Pending
    /\ calls' = 0
    /\ agent_runs' = 0
    /\ validated' = {}
    /\ review_response' = NoneVal
    /\ fixed_template' = NoneVal
    /\ tool_calls' = 0
    /\ commands' = <<>>
    /\ tool_result' = Pending
    /\ UNCHANGED <<project_dependency_object, dependency_on_disk, files>>
    /\ UNCHANGED <<page, docker_file_path, initialized, progress, session_status,
                   text_area, button>>
    /\ UNCHANGED beyondPage

NextPage ==
    \/ ScriptRun
    \/ CheckDockerFilePath
    \/ InitializeSessionState
    \/ GenerateButton
    \/ CallEntryFunction
    \/ SupervisorChainTf
    \/ ClusterChainTf
    \/ ReadDockerfileTf
    \/ TaskDefinitionTf
    \/ TerraformGeneration
    \/ WriteMainTf
    \/ RegenerateTerraformCodeIfError
    \/ TerraformInit
    \/ TerraformPlan
    \/ AgentAnswer
    \/ CheckInputsCf
    \/ SupervisorChainCf
    \/ ClusterChainCf
    \/ ReadDockerfileCf
    \/ TaskDefinitionCf
    \/ CloudformationGeneration
    \/ WriteInitialTemplate
    \/ RegenerateCloudformationTemplateIfError
    \/ WriteFixedTemplate
    \/ TerraformResult
    \/ CloudformationResult
    \/ Finally

SpecPage == InitPage /\ [][NextPage]_vars

----------------------------------------------------------------------------
(* Properties of build_docker_image *)

\* C1: in one run at most Ceiling+1 = 11 image builds and at most
\* Ceiling = 10 calls of fix_docker_build_issue occur.
C1_BoundedAttempts ==
    /\ builds <= Ceiling + 1
    /\ repairs <= Ceiling

C1_Witness ==
    /\ pc = "aborted"
    /\ builds = Ceiling + 1
    /\ repairs = Ceiling

ReturnedDiagnostic == IF ret = None THEN None ELSE ret[1]
ReturnedArtifact == IF ret = None THEN None ELSE ret[2]

C4_FirstAttemptSuccess ==
    (pc = "done" /\ failures = 0) =>
        /\ attempts = 1
        /\ builds = 1
        /\ ops = <<"build", "run", "stop", "remove">>
        /\ repairs = 0
        /\ prompt = NoPrompt
        /\ file = file0

C4_Witness ==
    /\ pc = "done"
    /\ failures = 0
    /\ containers = {}

\* Scenario B: three failed validations with one diagnostic, then success.
ScenarioB ==
    /\ pc = "done"
    /\ failures = 3
    /\ \E d \in Diagnostics : log = <<d, d, d>>

\* The first repair has returned and attempt 2 is about to start.
BeforeAttempt2 ==
    /\ pc = "call"
    /\ repairs = 1

Embeds(request, part) == \E i \in DOMAIN request : request[i] = part

\* C5 as stated: in scenario B the counter ends at 3, the number of repairs,
\* and the prompt sent before attempt 2 holds the diagnostic of attempt 1.
C5_Original ==
    /\ ScenarioB => (fix_count = 3 /\ repairs = 3)
    /\ (BeforeAttempt2 /\ prompt # NoPrompt) => Embeds(prompt, log[1])

\* C5 amended: in scenario B the run ends in Done after 3 repairs with
\* fix_count = 4 (it counts the attempts), and the prompt sent before
\* attempt 2 holds the diagnostic of attempt 1 as it was logged.
C5_ScenarioB ==
    /\ ScenarioB => (fix_count = 4 /\ repairs = 3)
    /\ (BeforeAttempt2 /\ prompt # NoPrompt) => Embeds(prompt, log[1])

C5_Witness ==
    /\ ScenarioB
    /\ file # file0

C5_PromptWitness ==
    /\ BeforeAttempt2
    /\ prompt # NoPrompt
    /\ Embeds(prompt, log[1])

\* C6 as stated: fix_count is the number of failed validations, also after
\* an attempt that succeeded.
C6_Original ==
    pc \in {"call", "fix", "done", "aborted"} => fix_count = failures

\* C6 amended: fix_count is 0 at first and is raised once at the start of
\* every attempt: it is the number of attempts started, equals k after k
\* failed validations, and is one more than the failures after a success.
C6_CountsAttempts ==
    /\ fix_count = attempts
    /\ pc \in {"call", "fix", "aborted"} => fix_count = failures
    /\ pc = "done" => fix_count = failures + 1

C6_Witness ==
    /\ pc = "done"
    /\ failures = 2
    /\ fix_count = 3

\* C7 as stated: the counter never decreases and a run ends only in success
\* or with the counter above the ceiling.
C7_Original ==
    [][ /\ fix_count' >= fix_count
        /\ pc' \in Terminal => (pc' = "done" \/ fix_count' > Ceiling) ]_vars

\* C7 amended: the counter never decreases and a run ends in success, or
\* with the counter above the ceiling after a build or API error, or at the
\* first exception of any other type, which the catch-all logs.
C7_Endings ==
    [][ /\ fix_count' >= fix_count
        /\ pc' = "done" => e' = NoExc
        /\ pc' = "aborted" =>
              (fix_count' > Ceiling /\ e'.kind \in {"BuildError", "APIError"})
        /\ pc' = "unexpected" => e'.kind = "Exception" ]_vars

C7_Witness ==
    /\ pc = "unexpected"
    /\ fix_count <= Ceiling
    /\ fix_count > 1

\* C8: no container of an attempt exists when the next attempt starts or
\* when the run has ended.
C8_ContainersCleanedUp ==
    (pc = "call" \/ pc \in Terminal) => containers = {}

\* C9: success is reported only after build, run, stop and remove in this
\* order, with the container's process running until stop() ended it.
C9_SmokeStep ==
    pc = "done" =>
        /\ ops = <<"build", "run", "stop", "remove">>
        /\ status = "stopped"

\* C10: every repair leaves a newly written Dockerfile, so every build
\* after the first runs on a Dockerfile written since the build before.
C10_NeverRevalidated ==
    ((pc = "call" /\ repairs > 0) \/ (pc = "build" /\ attempts > 1)) => rewritten

\* C12 as stated: every failure of a stage becomes a repair or, past the
\* ceiling, the abort; a run ends in no other way than these and success.
C12_Original ==
    [][ /\ pc' # "raised"
        /\ (e' # NoExc /\ e' # e) =>
              pc' \in {"except_BuildError", "except_APIError"}
        /\ pc \in {"except_BuildError", "except_APIError"} =>
              pc' = (IF fix_count > Ceiling THEN "aborted" ELSE "fix") ]_vars

\* C12 amended: no exception leaves build_docker_image; a BuildError or
\* APIError becomes a repair or, past the ceiling, the abort; any other
\* exception (reading the Dockerfile, connecting to the runtime) goes to the
\* catch-all, which ends the run; a failed repair is swallowed and the next
\* attempt starts.
C12_AllCaught ==
    [][ /\ pc' # "raised"
        /\ (e' # NoExc /\ e' # e) =>
              pc' = (CASE e'.kind = "BuildError" -> "except_BuildError"
                       [] e'.kind = "APIError" -> "except_APIError"
                       [] OTHER -> "except_Exception")
        /\ pc \in {"except_BuildError", "except_APIError"} =>
              pc' = (IF fix_count > Ceiling THEN "aborted" ELSE "fix")
        /\ pc = "except_Exception" => pc' = "unexpected"
        /\ pc = "fix" => pc' = "call" ]_vars

C12_Witness ==
    /\ pc = "unexpected"
    /\ dockerfile_content = ""
    /\ repairs > 0

\* C14: a repair whose gateway call fails uses up one attempt: the
\* Dockerfile stays, the next attempt starts with the counter one higher,
\* and the counter stays within Ceiling+1.
C14_GatewayFailure ==
    [][ /\ (pc = "fix" /\ fix_result' = "False") =>
              /\ pc' = "call"
              /\ repairs' = repairs + 1
              /\ fix_count' = fix_count
              /\ file' = file
        /\ (pc = "call" /\ fix_result = "False") =>
              /\ pc' = "from_env"
              /\ fix_count' = fix_count + 1
              /\ fix_count' <= Ceiling + 1 ]_vars

C14_Witness ==
    /\ pc = "call"
    /\ fix_result = "False"
    /\ prompt # NoPrompt
    /\ fix_count = Ceiling

\* C25: a repair prompt of build_docker_image holds the diagnostic of the
\* validation that just failed (the one logged last) and the artifact that
\* validation ran on: the Dockerfile as read and built in the same attempt,
\* not written since, and not empty.
C25_PromptPairs ==
    [][ (pc = "fix" /\ prompt' # NoPrompt) =>
            /\ Embeds(prompt', log[Len(log)])
            /\ log[Len(log)] = Str(e)
            /\ Embeds(prompt', file)
            /\ dockerfile_content = file
            /\ file # ""
            /\ ~rewritten
            /\ ops # <<>> /\ ops[1] = "build" ]_vars

C25_Witness ==
    /\ pc = "call"
    /\ repairs = 2
    /\ prompt # NoPrompt
    /\ Embeds(prompt, "FROM debian:latest")
    /\ file0 = "FROM python:latest"
    /\ file = "FROM python:latest"

----------------------------------------------------------------------------
(* Properties of the classifier tests *)

LowerAll(v) == [i \in DOMAIN v |-> Lower(v[i])]

Tags == {"fargate", "ec2-autoscaling"}

Classified ==
    t_pc \in {"generate_terraform_code", "generate_cloudformation_template"}

\* C15: a strategy is taken from the classifier's answer only when the answer
\* is exactly one of the known tags (letter case and surrounding whitespace
\* aside); an answer that merely contains a tag, contains both tags or
\* negates a tag selects no strategy.
C15_ClosedVocabulary ==
    (Classified /\ result.tag \in Tags) => LowerAll(Strip(text)) = <<result.tag>>

----------------------------------------------------------------------------
(* Properties of the extractors *)

\* The marker the applied extractor looks for.
Marker == IF t_pc \in {"yaml_response", "extract_yaml_from_response"}
             THEN "yaml" ELSE "hcl"

Extracted ==
    t_pc \in {"extract_yaml_from_response", "extract_terraform_code_from_output"}

RECURSIVE SplitLines(_)
SplitLines(t) ==
    IF \E i \in 1..Len(t) : t[i] = NL
       THEN <<FirstLine(t)>> \o SplitLines(SubSeq(t, Len(FirstLine(t)) + 2, Len(t)))
       ELSE <<t>>

\* The fenced blocks of a text read line by line: a line starting with a
\* fence opens a block, the rest of that line being its tag, and the next
\* line that is a fence alone closes it.
RECURSIVE Parse(_, _, _)
Parse(ls, cur, done) ==
    IF ls = <<>> THEN [blocks |-> done, closed |-> cur = <<>>]
    ELSE LET l == Head(ls)
         IN  IF cur = <<>>
                THEN IF l # <<>> /\ l[1] = Fence
                        THEN Parse(Tail(ls), <<[info |-> Tail(l), body |-> <<>>]>>, done)
                        ELSE Parse(Tail(ls), cur, done)
             ELSE IF l = <<Fence>>
                THEN Parse(Tail(ls), <<>>, Append(done, cur[1]))
             ELSE Parse(Tail(ls),
                        <<[info |-> cur[1].info, body |-> Append(cur[1].body, l)]>>,
                        done)

Blocks(t) == Parse(SplitLines(t), <<>>, <<>>).blocks

Fences(t) == Cardinality({i \in 1..Len(t) : t[i] = Fence})

\* Every block is closed and the text holds no fence but those that open
\* and close its blocks.
WellFormed(t) ==
    /\ Parse(SplitLines(t), <<>>, <<>>).closed
    /\ Fences(t) = 2 * Len(Blocks(t))

TaggedBlocks(t, marker) ==
    {i \in 1..Len(Blocks(t)) : Blocks(t)[i].info = <<marker>>}

TrimmedBody(t, marker) ==
    Strip(JoinLines(Blocks(t)[CHOOSE i \in TaggedBlocks(t, marker) : TRUE].body))

\* C19: for a well-formed response with exactly one fenced block tagged with
\* the expected marker, the extractor returns that block's trimmed body and
\* nothing else.
C19_TrimmedBody ==
    (Extracted /\ WellFormed(text) /\ Cardinality(TaggedBlocks(text, Marker)) = 1)
        => result = StrVal(TrimmedBody(text, Marker))

\* The same when no other block's tag starts with the marker: the only fence
\* followed by the marker is then the tagged block's.
SoleMarkerFence ==
    \A i \in 1..Len(Blocks(text)) :
        (Blocks(text)[i].info # <<>> /\ Blocks(text)[i].info[1] = Marker)
            => Blocks(text)[i].info = <<Marker>>

ExtractsSoleMarkerFence ==
    (Extracted /\ WellFormed(text) /\ Cardinality(TaggedBlocks(text, Marker)) = 1
       /\ SoleMarkerFence)
        => result = StrVal(TrimmedBody(text, Marker))

\* C20: for a response with no fenced block tagged with the expected marker
\* (no fence at all, or blocks with other tags) the extractor raises an
\* error and returns no value.
C20_ExtractionError ==
    (Extracted /\ WellFormed(text) /\ TaggedBlocks(text, Marker) = {})
        => result = ValueError

\* The trimmed bodies of the blocks tagged with the marker, in order.
TrimmedBodies(t, marker) ==
    LET tagged == SelectSeq(Blocks(t), LAMBDA b : b.info = <<marker>>)
    IN  [i \in 1..Len(tagged) |-> Strip(JoinLines(tagged[i].body))]

SeveralBlocks(marker) ==
    WellFormed(text) /\ Cardinality(TaggedBlocks(text, marker)) >= 2

\* C21: for a response with two or more hcl blocks,
\* extract_terraform_code_from_output returns the trimmed bodies of all of
\* them, in order of appearance, with one blank line between two bodies.
C21_Concatenation ==
    (t_pc = "extract_terraform_code_from_output" /\ SeveralBlocks("hcl"))
        => result = StrVal(Strip(Join(TrimmedBodies(text, "hcl"))))

\* The same when no other block's tag starts with hcl.
ConcatenatesSoleMarkerFences ==
    (t_pc = "extract_terraform_code_from_output" /\ SeveralBlocks("hcl")
       /\ SoleMarkerFence)
        => result = StrVal(Strip(Join(TrimmedBodies(text, "hcl"))))

\* C22: for a response with several yaml blocks, extract_yaml_from_response
\* fails or returns all bodies; it never returns the first block's body
\* alone while a later block has a body too.
C22_NoSilentPick ==
    (t_pc = "extract_yaml_from_response" /\ SeveralBlocks("yaml")) =>
        ~ /\ result = StrVal(TrimmedBodies(text, "yaml")[1])
          /\ \E i \in 2..Len(TrimmedBodies(text, "yaml")) :
                 TrimmedBodies(text, "yaml")[i] # <<>>

----------------------------------------------------------------------------
(* Properties of the generation runs *)

IacRun == run \in {TF, CF}

NoFileWritten == \A p \in Paths : files[p] = Absent

\* C11: what get_fixed_terraform_code and get_fixed_cloudformation_template
\* return is a code on which the validator reported success, or the
\* best-effort code with an explanation; never a code no validation
\* accepted, and never a bare None.
C11_ValidatedOrExplained ==
    (IacRun /\ g_pc = "returned") =>
        /\ outcome.tag = "str" => outcome \in validated
        /\ outcome # NoneVal

\* A stage answered, and its answer is empty or holds no block with the marker.
Unusable(v, marker) ==
    v.tag = "str" /\ (v.val = <<>> \/ TaggedBlocks(v.val, marker) = {})

StageFailed ==
    \/ Unusable(task_definition_response, "json")
    \/ Unusable(generation_response, IF run = TF THEN "hcl" ELSE "yaml")

\* C13: a Terraform or CloudFormation run in which a generation stage
\* returned empty or unparseable output does not end before the repair
\* step has taken the failure up.
C13_HandedToRepair ==
    (IacRun /\ StageFailed /\ Ended) => agent_runs > 0

\* The classifier's answer names no strategy.
NoStrategy ==
    /\ classification_result.tag = "str"
    /\ \A i \in 1..Len(classification_result.val) :
           Lower(classification_result.val[i]) \notin Tags

\* C16: after an answer of the classifier that names no strategy, the run
\* issues no further gateway call, writes no file, invokes no repair step
\* and ends with an error.
C16_UnrecognizedIsFatal ==
    (IacRun /\ NoStrategy) =>
        /\ calls = 1
        /\ NoFileWritten
        /\ agent_runs = 0
        /\ Ended => outcome.tag \in {"None", "raised"}

\* C17: get_fixed_cloudformation_template called with an empty requirement
\* or an empty Dockerfile path returns None, and generate_docker_file called
\* with an empty dependency-object path returns the empty string, without
\* any gateway call or file write.
C17_PreconditionFatal ==
    /\ (run = CF /\ (user_input = "" \/ dockerfile_path = "") /\ g_pc # "start")
           => (g_pc = "returned" /\ outcome = NoneVal /\ calls = 0 /\ NoFileWritten)
    /\ (run = GDF /\ project_dependency_object = "" /\ g_pc # "start")
           => (g_pc = "returned" /\ outcome = StrVal(<<>>) /\ calls = 0
               /\ NoFileWritten)

C17_Witness ==
    /\ run = CF
    /\ user_input # ""
    /\ dockerfile_path = ""
    /\ g_pc = "returned"
    /\ error = "ValueError"
    /\ calls = 0

DockerfileMissing ==
    IacRun /\ error = "FileNotFoundError" /\ tool_result = Pending

\* C18 as stated: the unreadable Dockerfile is detected before any gateway
\* call is issued.
C18_Original == DockerfileMissing => calls = 0

\* C18: the unreadable Dockerfile is detected when it is read, after the
\* classification call and the cluster call; the run ends there, with
\* FileNotFoundError from get_fixed_terraform_code and None from
\* get_fixed_cloudformation_template, and no generation call follows.
C18_DetectedAtRead ==
    DockerfileMissing =>
        /\ calls = 2
        /\ Ended
        /\ agent_runs = 0
        /\ NoFileWritten
        /\ outcome = (IF run = TF THEN Raised("FileNotFoundError") ELSE NoneVal)

C18_Witness ==
    /\ run = TF
    /\ ~dockerfile_on_disk
    /\ g_pc = "raised"
    /\ outcome = Raised("FileNotFoundError")
    /\ calls = 2

\* The generation stages of the run have all answered and a code was
\* extracted from the final answer.
GenerationSucceeded ==
    /\ IacRun
    /\ generation_response # NoneVal
    /\ generated.tag = "str"

\* C24: every stage is one generation call and the final stage takes the
\* task definition of the earlier stage: a successful generation has issued
\* exactly four calls (classification, cluster, task definition, final
\* artifact) when its code is about to be written.
C24_FourCalls ==
    (GenerationSucceeded /\ g_pc \in {"write", "write_initial"}) => calls = 4

----------------------------------------------------------------------------
(* Properties of two interleaved runs *)

\* C23: two interleaved runs share nothing: what a run's agent or review is
\* given, what its validator runs on and what the run returns derive from
\* the run's own requirement, and a run never reads a file written by the
\* other run.
C23_NoSharedState ==
    \A r \in Runs :
        /\ r_seen[r] # NoArtifact => r_seen[r] = Artifact(r_input[r], r)
        /\ r_planned[r] # NoArtifact => r_planned[r] = Artifact(r_input[r], r)
        /\ r_pc[r] = "returned" => r_output[r] = Artifact(r_input[r], r)
(* Results of the Dockerfile generator *)

\* C26: fix_docker_build_issue returns True exactly when the repaired
\* Dockerfile was generated and saved to dockerfile_path, and False whenever
\* the generation call or the file write failed.
C26_TrueIffSaved ==
    [][ pc = "fix" => (fix_result' = "True" <=> rewritten') ]_vars

\* A Dockerfile with the generated content is at the path.
DockerfileWritten ==
    /\ generation_response # NoneVal
    /\ files["app/Dockerfile"] = generation_response

\* C27: generate_docker_file returns the path of the Dockerfile only when a
\* Dockerfile with the generated content was written there, and the empty
\* string on every failure: manifest unreadable, a generation call failed,
\* the file could not be written.
C27_PathOnlyWhenWritten ==
    (run = GDF /\ g_pc \in {"returned", "raised"}) =>
        /\ g_pc = "returned"
        /\ IF DockerfileWritten THEN outcome = StrVal(<<"app/Dockerfile">>)
                                ELSE outcome = StrVal(<<>>)

(* The two files of the CloudFormation generator *)

InitialPath == "iac/initial_cloudformation_template.yaml"

FixedPath == "iac/fixed_cloudformation_template.yaml"

\* The fix step came back with a non-empty template.
FixReturned ==
    /\ fixed_template # NoneVal
    /\ fixed_template # StrVal(<<>>)

\* C28: in get_fixed_cloudformation_template the initial template file is
\* written before the fix step is attempted, the fixed template file is
\* written only after the fix step returned a non-empty template, and the
\* fixed file is not written when the fix step fails.
C28_InitialBeforeFixed ==
    [][ run = CF =>
          /\ agent_runs' # agent_runs =>
                /\ generated # NoneVal
                /\ files[InitialPath] = generated
                /\ files[FixedPath] = Absent
          /\ files'[FixedPath] # files[FixedPath] =>
                /\ agent_runs = 1
                /\ FixReturned
                /\ files'[FixedPath] = fixed_template
                /\ files[InitialPath] = generated
          /\ (agent_runs' # agent_runs /\ error' # None) =>
                /\ files'[FixedPath] = Absent
                /\ g_pc' = "returned" ]_vars

C28_Witness ==
    /\ run = CF
    /\ g_pc = "returned"
    /\ files[InitialPath] = StrVal(<<"cf0">>)
    /\ files[FixedPath] = StrVal(<<"cf1">>)
    /\ outcome = StrVal(<<"cf1">>)

\* The fix step was attempted and produced no fixed template.
FixFailed ==
    /\ run = CF
    /\ agent_runs = 1
    /\ g_pc = "returned"
    /\ fixed_template = NoneVal

\* C29: when the fix step of get_fixed_cloudformation_template fails to
\* produce a fixed template, because the answer has no extractable yaml
\* block or the gateway call fails, the function falls back to the initial
\* template and returns it.
C29_FallsBackToInitial ==
    FixFailed => outcome = generated

\* C30: a fenced yaml block with an empty body never becomes an artifact:
\* generate_cloudformation_template fails instead of returning an empty
\* template, regenerate_cloudformation_template_if_error returns the original
\* template unchanged, and get_fixed_cloudformation_template never returns
\* or writes an empty template.
C30_EmptyBlockNoArtifact ==
    run = CF =>
        /\ outcome # StrVal(<<>>)
        /\ files[InitialPath] # StrVal(<<>>)
        /\ files[FixedPath] # StrVal(<<>>)
        /\ generated # StrVal(<<>>)
        /\ (generation_response = StrVal(EmptyBlock("yaml")) /\ g_pc # "generate") =>
              /\ generated = NoneVal
              /\ error = "ValueError"
              /\ outcome = NoneVal
              /\ agent_runs = 0
        /\ review_response = StrVal(EmptyBlock("yaml")) =>
              /\ fixed_template = generated
              /\ generated # NoneVal

C30_Witness ==
    /\ run = CF
    /\ g_pc = "returned"
    /\ review_response = StrVal(EmptyBlock("yaml"))
    /\ outcome = StrVal(<<"cf0">>)
    /\ files[FixedPath] = StrVal(<<"cf0">>)

(* The ExecuteTerraform tool *)

\* C31: execute_terraform runs terraform plan only after terraform init
\* exited successfully in the same call; every failure of init or plan,
\* the tool not being runnable included, is returned as a diagnostic text and
\* never raised; the plan output is returned only when both commands
\* succeeded.
C31_DiagnosticsReturned ==
    run = TF =>
        /\ \A i \in 1..Len(commands) :
              commands[i].cmd = "plan" =>
                  i = 2 /\ commands[1] = Command("init", "ok")
        /\ tool_result.tag # "raised"
        /\ tool_result = PlanOutput <=>
              commands = <<Command("init", "ok"), Command("plan", "ok")>>

(* The Dockerfile left by an aborted run *)

\* The repair of the attempt that just ended saved nothing, and it was the
\* last repair the ceiling allows.
LastRepairNotSaved == pc = "call" /\ repairs = Ceiling /\ ~rewritten

\* C32: when build_docker_image aborts on attempt exhaustion, the Dockerfile
\* left at dockerfile_path is the output of the last (10th) repair, which is
\* the artifact the final (11th) validation rejected; no repair prompt is
\* issued for the final diagnostic, and the value returned is None as on
\* validated success.
C32_LastRepairLeft ==
    /\ [](pc = "aborted" =>
            /\ repairs = Ceiling
            /\ attempts = Ceiling + 1
            /\ file = dockerfile_content
            /\ prompt = NoPrompt
            /\ ret = None)
    /\ [](LastRepairNotSaved => [](pc # "aborted"))

(* The pages *)

\* A generation run started by the page is executing.
RunExecuting == p_pc \in {"call", "running", "finally"}

\* The entry function returned an artifact.
ArtifactReturned == outcome.tag = "str" /\ outcome.val # <<>>

\* C33: on the Terraform and CloudFormation pages the in-progress flag is
\* True only while a generation run is executing: it is set before the run
\* starts, it is False again after the run on every path (success, error
\* result, exception), a run is never started while the flag is True or when
\* the user input is empty or no Dockerfile path is in the session, and
\* progress is set to 100 only on the success path.
C33_InProgressFlag ==
    [][ /\ in_progress' => RunExecuting'
        /\ p_pc' = "running" => in_progress'
        /\ p_pc' = "idle" => ~in_progress'
        /\ (p_pc' = "call" /\ p_pc # "call") =>
              /\ ~in_progress
              /\ text_area # ""
              /\ docker_file_path \notin {Unbound, None}
        /\ progress' # progress => (progress' = 100 /\ ArtifactReturned) ]_vars

\* C34: the Terraform page sets the status "Terraform code generation
\* completed successfully." only when get_fixed_terraform_code returned a
\* non-empty Terraform artifact; when the repair agent's final answer has no
\* hcl block (result None) the page reports an error, as the CloudFormation
\* page does for a None result.
C34_SuccessNeedsArtifact ==
    (page = TerraformPage /\ p_pc = "finally") =>
        /\ session_status = CompletedSuccessfully(page) => ArtifactReturned
        /\ outcome = NoneVal => session_status = ErrorStatus

\* generate_terraform_code yields no Terraform code.
NoTerraformCode ==
    /\ run = TF
    /\ g_pc \in {"write", "regenerate", "agent", "plan"}
    /\ generated \in {NoneVal, StrVal(Unable)}

\* C35: when generate_terraform_code yields no Terraform code (extraction
\* returns None, or classification fails), get_fixed_terraform_code leaves an
\* existing iac/main.tf unchanged: the file is neither truncated nor
\* overwritten with non-Terraform text, and the repair agent is not run on it.
C35_MainTfUntouched ==
    [][ (NoTerraformCode /\ files["iac/main.tf"] # Absent) =>
          /\ files'["iac/main.tf"] = files["iac/main.tf"]
          /\ agent_runs' = agent_runs ]_vars

(* The two classifiers on one answer *)

\* C36: for every classifier response text the Terraform generator and the
\* CloudFormation generator agree on the strategy: whenever
\* generate_cloudformation_template takes the Fargate pipeline,
\* generate_terraform_code takes the Fargate pipeline for the same text, and
\* whenever generate_terraform_code takes the EC2-autoscaling pipeline,
\* generate_cloudformation_template does not take the Fargate pipeline.
C36_SameStrategy ==
    /\ (t_pc = "generate_cloudformation_template" /\ result.tag = "fargate")
          => ClassifyTerraform(text) = "fargate"
    /\ (t_pc = "generate_terraform_code" /\ result.tag = "ec2-autoscaling")
          => ClassifyCloudformation(text) # "fargate"

====
